---- MODULE Spec2Model ----
(***************************************************************************)
(* DPTensorAggregatorBundleFactory::CreateInternal and the                 *)
(* DPTensorAggregatorBundle constructor                                    *)
(* (tensorflow_federated/cc/core/impl/aggregation/core/                    *)
(* dp_tensor_aggregator_bundle.cc), stepped statement group by statement   *)
(* group.  The registry, the nested factories, the proto accessors and the *)
(* constants header are collaborators outside this file; their behaviour   *)
(* is an input of the model.                                               *)
(*                                                                         *)
(* double values are exact rationals <<numerator, denominator>> with a     *)
(* positive denominator; rounding of IEEE division is not modelled.        *)
(***************************************************************************)
EXTENDS Integers, Sequences, FiniteSets, TLC

\* ------------------------------------------------------------------ bounds
\* Longest nested_intrinsics list (and longest nested_serialized_states list).
MaxNested == 2
\* Longest parameters list.
MaxParams == 3
\* How many Accumulate calls a constructed bundle absorbs before it is serialized.
MaxAccumulate == 1

\* ------------------------------------------------------------ rationals
Rat(n, d) == <<n, d>>
RLess(a, b) == a[1] * b[2] < b[1] * a[2]
RLeq(a, b) == a[1] * b[2] <= b[1] * a[2]
REq(a, b) == a[1] * b[2] = b[1] * a[2]
\* a / n for a positive int n (double / int, line 131 and 133)
RDivInt(a, n) == <<a[1], a[2] * n>>
\* n * a
RMulInt(n, a) == <<n * a[1], a[2]>>
Zero == Rat(0, 1)
One == Rat(1, 1)

\* ------------------------------------------------- collaborators' vocabulary
\* dp_fedsql_constants.h: the per-aggregator epsilon cap (units: 1.0).
kEpsilonThreshold == 1
kEpsilonIndex == 0
kDeltaIndex == 1

INVALID_ARGUMENT == "INVALID_ARGUMENT"
\* Statuses a nested factory or the registry may answer with.
ResolverCodes == {"INVALID_ARGUMENT", "NOT_FOUND"}

\* Intrinsic URIs: a registered DP aggregator, a registered aggregator that is
\* no DPTensorAggregator, a registered factory that rejects the intrinsic, and
\* a URI the registry does not know.
Uris == {"dp", "plain", "reject", "unknown"}
\* Serialized nested states: one the nested factory accepts, one it rejects.
Blobs == {"ok", "bad"}

Nested(uri, k) == [uri |-> uri, inputs |-> k]
\* nested.inputs.size() varies for the URI that gets as far as line 90.
NestedSpecs ==
    {Nested("dp", 1), Nested("dp", 2), Nested("plain", 1), Nested("reject", 1),
     Nested("unknown", 1)}

Param(dtype, v) == [dtype |-> dtype, value |-> v]
EpsilonParams ==
    {Param("DT_STRING", Zero), Param("DT_DOUBLE", Rat(-1, 1)),
     Param("DT_DOUBLE", Zero), Param("DT_DOUBLE", Rat(1, 2)),
     Param("DT_DOUBLE", One), Param("DT_DOUBLE", Rat(3, 1))}
DeltaParams ==
    {Param("DT_STRING", Zero), Param("DT_DOUBLE", Rat(-1, 1)),
     Param("DT_DOUBLE", Zero), Param("DT_DOUBLE", Rat(1, 2)),
     Param("DT_DOUBLE", One)}

SeqsUpTo(S, n) == UNION {[1..k -> S] : k \in 0..n}

\* parameters: any length up to MaxParams; slot 0 from EpsilonParams, slot 1
\* from DeltaParams, further slots hold a filler tensor.
ParameterLists ==
    {p \in SeqsUpTo(EpsilonParams \cup DeltaParams, MaxParams) :
        /\ Len(p) >= 1 => p[1] \in EpsilonParams
        /\ Len(p) >= 2 => p[2] \in DeltaParams
        /\ \A k \in 3..Len(p) : p[k] = Param("DT_DOUBLE", Zero)}

Intrinsics ==
    [nested_intrinsics : SeqsUpTo(NestedSpecs, MaxNested),
     parameters : ParameterLists]

\* const DPTensorAggregatorBundleState* : nullptr or a message.
NullState == [present |-> FALSE]
StoredCounters == {-1, 2}
States ==
    {NullState} \cup
    [present : {TRUE}, num_inputs : StoredCounters,
     nested_serialized_states : SeqsUpTo(Blobs, MaxNested)]

\* 0-based element access, as the code indexes.
At(s, k) == s[k + 1]

NullPtr == [null |-> TRUE]
NoResult == [kind |-> "none"]
Crash == [kind |-> "crash"]

\* TFF_STATUS(code) << ... : rule names the return statement, index the nested
\* intrinsic it is about (-1 when none).
Error(code, rule, index) ==
    [kind |-> "error", code |-> code, rule |-> rule, index |-> index]

VARIABLES
    intrinsic,            \* const Intrinsic& intrinsic
    aggregator_state,     \* const DPTensorAggregatorBundleState* aggregator_state
    resolver_code,        \* the status the registry / nested factories fail with
    pc,                   \* position in CreateInternal
    i,                    \* loop counter of line 65
    num_inputs,           \* local of line 58
    aggregator_ptr,       \* std::unique_ptr<TensorAggregator> of line 70
    nested_aggregators,   \* local vector of line 63
    num_tensors_per_agg,  \* local vector of line 64
    obtained,             \* every instance a nested factory handed out in this call
    destroyed,            \* every instance whose owner has been destructed
    result,               \* what CreateInternal returned
    bundle,               \* the live DPTensorAggregatorBundle
    accumulated,          \* Accumulate calls absorbed by the live bundle
    phase,                \* "first" call, "rerun" of the same call, "restored" call
    first_result,         \* the first call's result, kept for the rerun
    serialized_from       \* the bundle as it was when its state was serialized

vars ==
    <<intrinsic, aggregator_state, resolver_code, pc, i, num_inputs,
      aggregator_ptr, nested_aggregators, num_tensors_per_agg, obtained,
      destroyed, result, bundle, accumulated, phase, first_result,
      serialized_from>>

inputs == <<intrinsic, aggregator_state, resolver_code>>
locals == <<i, num_inputs, aggregator_ptr, nested_aggregators, num_tensors_per_agg>>
history == <<phase, first_result, serialized_from>>


\* ------------------------------------------------ collaborators (not in this file)
\* GetAggregatorFactory(uri): the registry knows every URI but "unknown".
GetAggregatorFactoryOk(uri) == uri # "unknown"
\* factory->Create(nested): the "reject" factory refuses the intrinsic.
FactoryCreateOk(nested) == nested.uri # "reject"
\* factory->Deserialize(nested, blob): as Create, and the blob must parse.
FactoryDeserializeOk(nested, blob) == nested.uri # "reject" /\ blob = "ok"
\* internal::GetTypeKind(dtype)
GetTypeKind(dtype) == IF dtype = "DT_STRING" THEN "kString" ELSE "kNumeric"
\* The instance a nested factory hands out for nested intrinsic number idx:
\* via names the factory call, blob the serialized state it was given and
\* blob_index where that state was read from (-1: not from the message).
Instance(idx, nested, via, blob, blob_index) ==
    [null |-> FALSE, idx |-> idx, uri |-> nested.uri, dp |-> nested.uri = "dp",
     via |-> via, blob |-> blob, blob_index |-> blob_index]

\* ------------------------------------------------------- pieces of the code
\* A slip on line 58-59: the stored count is never read.
NumInputsInit_Zero(state) == 0

\* line 58-59: (aggregator_state == nullptr ? 0 : aggregator_state->num_inputs())
NumInputsInit(state) == IF ~state.present THEN 0 ELSE state.num_inputs

\* line 71: if (aggregator_state != nullptr) Deserialize else Create
UseDeserialize(state) == state.present

\* line 75: aggregator_state->nested_serialized_states(i)
NestedStateIndex(idx) == idx

\* line 79-81: dynamic_cast<DPTensorAggregator*>(aggregator_ptr.get()) != nullptr
IsDPTensorAggregator(inst) == inst.dp

\* line 90: nested.inputs.size()
NumTensors(nested) == nested.inputs

\* A slip on line 63: a vector of raw pointers, which destructs nothing.
ScopeExitOwned_PtrOnly(ptr, vec) == IF ptr.null THEN {} ELSE {ptr}

\* lines 63 and 70: what the unique_ptr locals own, and so destruct, when the
\* function returns without having moved them out.
ScopeExitOwned(ptr, vec) ==
    (IF ptr.null THEN {} ELSE {ptr}) \cup {vec[k] : k \in 1..Len(vec)}

\* A slip on line 117: epsilon < 0 for epsilon <= 0.
ParametersError_EpsilonStrict(parameters) ==
    IF Len(parameters) # 2
    THEN Error(INVALID_ARGUMENT, "param_count", -1)
    ELSE IF GetTypeKind(At(parameters, kEpsilonIndex).dtype) # "kNumeric"
    THEN Error(INVALID_ARGUMENT, "epsilon_type", -1)
    ELSE IF GetTypeKind(At(parameters, kDeltaIndex).dtype) # "kNumeric"
    THEN Error(INVALID_ARGUMENT, "delta_type", -1)
    ELSE IF RLess(At(parameters, kEpsilonIndex).value, Zero)
    THEN Error(INVALID_ARGUMENT, "epsilon_range", -1)
    ELSE IF \/ RLess(At(parameters, kDeltaIndex).value, Zero)
            \/ RLeq(One, At(parameters, kDeltaIndex).value)
    THEN Error(INVALID_ARGUMENT, "delta_range", -1)
    ELSE NoResult

\* lines 93-128: the first failing check on intrinsic.parameters, or NoResult.
ParametersError(parameters) ==
    IF Len(parameters) # 2
    THEN Error(INVALID_ARGUMENT, "param_count", -1)
    ELSE IF GetTypeKind(At(parameters, kEpsilonIndex).dtype) # "kNumeric"
    THEN Error(INVALID_ARGUMENT, "epsilon_type", -1)
    ELSE IF GetTypeKind(At(parameters, kDeltaIndex).dtype) # "kNumeric"
    THEN Error(INVALID_ARGUMENT, "delta_type", -1)
    ELSE IF RLeq(At(parameters, kEpsilonIndex).value, Zero)
    THEN Error(INVALID_ARGUMENT, "epsilon_range", -1)
    ELSE IF \/ RLess(At(parameters, kDeltaIndex).value, Zero)
            \/ RLeq(One, At(parameters, kDeltaIndex).value)
    THEN Error(INVALID_ARGUMENT, "delta_range", -1)
    ELSE NoResult

\* A slip on line 131: epsilon <= kEpsilonThreshold for epsilon < kEpsilonThreshold.
EpsilonPerAgg_CapInclusive(epsilon, n) ==
    IF RLeq(epsilon, Rat(kEpsilonThreshold, 1))
    THEN RDivInt(epsilon, n)
    ELSE Rat(kEpsilonThreshold, 1)

\* lines 130-132
EpsilonPerAgg(epsilon, n) ==
    IF RLess(epsilon, Rat(kEpsilonThreshold, 1))
    THEN RDivInt(epsilon, n)
    ELSE Rat(kEpsilonThreshold, 1)

\* line 133
DeltaPerAgg(delta, n) == RDivInt(delta, n)

\* A slip on line 45: num_inputs_ left at zero.
DPTensorAggregatorBundle_NoInputs(aggregators, tensors, epsilon_per_agg, delta_per_agg, n_inputs) ==
    [kind |-> "bundle",
     aggregators_ |-> aggregators,
     num_tensors_per_agg_ |-> tensors,
     epsilon_per_agg_ |-> epsilon_per_agg,
     delta_per_agg_ |-> delta_per_agg,
     num_inputs_ |-> 0]

\* lines 37-45: the constructor's member initialisers.
DPTensorAggregatorBundle(aggregators, tensors, epsilon_per_agg, delta_per_agg, n_inputs) ==
    [kind |-> "bundle",
     aggregators_ |-> aggregators,
     num_tensors_per_agg_ |-> tensors,
     epsilon_per_agg_ |-> epsilon_per_agg,
     delta_per_agg_ |-> delta_per_agg,
     num_inputs_ |-> n_inputs]

\* ------------------------------------------------------------------- Init
FreshCall ==
    /\ pc = "start"
    /\ i = 0
    /\ num_inputs = 0
    /\ aggregator_ptr = NullPtr
    /\ nested_aggregators = <<>>
    /\ num_tensors_per_agg = <<>>
    /\ obtained = {}
    /\ destroyed = {}
    /\ result = NoResult
    /\ bundle = NoResult
    /\ accumulated = 0

Init ==
    /\ intrinsic \in Intrinsics
    /\ aggregator_state \in States
    /\ resolver_code \in ResolverCodes
    /\ FreshCall
    /\ phase = "first"
    /\ first_result = NoResult
    /\ serialized_from = NoResult

\* A new call of CreateInternal: nothing resolved, nothing returned yet.
StartCall ==
    /\ pc' = "start"
    /\ i' = 0
    /\ num_inputs' = 0
    /\ aggregator_ptr' = NullPtr
    /\ nested_aggregators' = <<>>
    /\ num_tensors_per_agg' = <<>>
    /\ obtained' = {}
    /\ destroyed' = {}
    /\ result' = NoResult
    /\ bundle' = NoResult
    /\ accumulated' = 0

\* ------------------------------------------------------------- CreateInternal
NumNested == Len(intrinsic.nested_intrinsics)
CurrentNested == At(intrinsic.nested_intrinsics, i)

\* A return of a failed status: the locals go out of scope.
ReturnError(err) ==
    /\ result' = err
    /\ pc' = "done"
    /\ destroyed' = destroyed \cup ScopeExitOwned(aggregator_ptr, nested_aggregators)
    /\ aggregator_ptr' = NullPtr
    /\ nested_aggregators' = <<>>
    /\ num_tensors_per_agg' = <<>>
    /\ i' = 0
    /\ num_inputs' = 0
    /\ UNCHANGED <<obtained, bundle, accumulated>>

\* lines 52-65: the emptiness check, num_inputs, the loop's initialisation.
CheckNested ==
    /\ pc = "start"
    /\ IF NumNested = 0
       THEN ReturnError(Error(INVALID_ARGUMENT, "empty", -1))
       ELSE /\ num_inputs' = NumInputsInit(aggregator_state)
            /\ i' = 0
            /\ pc' = "lookup"
            /\ UNCHANGED <<aggregator_ptr, nested_aggregators, num_tensors_per_agg,
                           obtained, destroyed, result, bundle, accumulated>>
    /\ UNCHANGED <<inputs, history>>

\* lines 66-69: TFF_ASSIGN_OR_RETURN(factory, GetAggregatorFactory(nested.uri))
\* hands the registry's status back unchanged.
ResolveFactory ==
    /\ pc = "lookup"
    /\ IF GetAggregatorFactoryOk(CurrentNested.uri)
       THEN /\ pc' = "create"
            /\ UNCHANGED <<locals, obtained, destroyed, result, bundle, accumulated>>
       ELSE ReturnError(Error(resolver_code, "resolve", i))
    /\ UNCHANGED <<inputs, history>>

\* The nested factory answered: an instance into aggregator_ptr, or its status
\* handed back unchanged by TFF_ASSIGN_OR_RETURN.
FactoryAnswer(ok, inst) ==
    IF ok
    THEN /\ aggregator_ptr' = inst
         /\ obtained' = obtained \cup {inst}
         /\ pc' = "cast"
         /\ UNCHANGED <<i, num_inputs, nested_aggregators, num_tensors_per_agg,
                        destroyed, result, bundle, accumulated>>
    ELSE ReturnError(Error(resolver_code, "resolve", i))

\* lines 70-78 with aggregator_state == nullptr.
CreateFresh ==
    /\ pc = "create"
    /\ ~UseDeserialize(aggregator_state)
    /\ FactoryAnswer(FactoryCreateOk(CurrentNested),
                     Instance(i, CurrentNested, "Create", "none", -1))
    /\ UNCHANGED <<inputs, history>>

\* lines 70-75 with a state message that has an element at the index read.
DeserializeStored ==
    /\ pc = "create"
    /\ UseDeserialize(aggregator_state)
    /\ NestedStateIndex(i) < Len(aggregator_state.nested_serialized_states)
    /\ LET blob == At(aggregator_state.nested_serialized_states, NestedStateIndex(i))
       IN FactoryAnswer(FactoryDeserializeOk(CurrentNested, blob),
                        Instance(i, CurrentNested, "Deserialize", blob,
                                 NestedStateIndex(i)))
    /\ UNCHANGED <<inputs, history>>

\* lines 70-75 with a state message shorter than the index read:
\* RepeatedPtrField::Get past the end is undefined; the read yields whatever
\* bytes lie there ...
DeserializeOutOfRange ==
    /\ pc = "create"
    /\ UseDeserialize(aggregator_state)
    /\ NestedStateIndex(i) >= Len(aggregator_state.nested_serialized_states)
    /\ \E blob \in Blobs :
          FactoryAnswer(FactoryDeserializeOk(CurrentNested, blob),
                        Instance(i, CurrentNested, "Deserialize", blob, -1))
    /\ UNCHANGED <<inputs, history>>

\* ... or the process dies on the read.
DeserializeCrash ==
    /\ pc = "create"
    /\ UseDeserialize(aggregator_state)
    /\ NestedStateIndex(i) >= Len(aggregator_state.nested_serialized_states)
    /\ pc' = "crashed"
    /\ result' = Crash
    /\ UNCHANGED <<inputs, history, locals, obtained, destroyed, bundle, accumulated>>

\* lines 79-91: the dynamic_cast, the ownership transfer into the vector, the
\* input count, ++i and the loop test.
CastAndPush ==
    /\ pc = "cast"
    /\ IF IsDPTensorAggregator(aggregator_ptr)
       THEN /\ nested_aggregators' = Append(nested_aggregators, aggregator_ptr)
            /\ aggregator_ptr' = NullPtr
            /\ num_tensors_per_agg' =
                   Append(num_tensors_per_agg, NumTensors(CurrentNested))
            /\ i' = i + 1
            /\ pc' = IF i + 1 < NumNested THEN "lookup" ELSE "params"
            /\ UNCHANGED <<num_inputs, obtained, destroyed, result, bundle, accumulated>>
       ELSE ReturnError(Error(INVALID_ARGUMENT, "not_dp", i))
    /\ UNCHANGED <<inputs, history>>

\* lines 93-128
ValidateParameters ==
    /\ pc = "params"
    /\ LET err == ParametersError(intrinsic.parameters)
       IN IF err = NoResult
          THEN /\ pc' = "split"
               /\ UNCHANGED <<locals, obtained, destroyed, result, bundle, accumulated>>
          ELSE ReturnError(err)
    /\ UNCHANGED <<inputs, history>>

\* lines 130-137: the split and the bundle, which takes the vectors over.
SplitAndReturn ==
    /\ pc = "split"
    /\ LET epsilon == At(intrinsic.parameters, kEpsilonIndex).value
           delta == At(intrinsic.parameters, kDeltaIndex).value
           made == DPTensorAggregatorBundle(
                       nested_aggregators, num_tensors_per_agg,
                       EpsilonPerAgg(epsilon, NumNested),
                       DeltaPerAgg(delta, NumNested), num_inputs)
       IN /\ result' = made
          /\ bundle' = made
    /\ pc' = "done"
    /\ destroyed' = destroyed \cup ScopeExitOwned(aggregator_ptr, <<>>)
    /\ aggregator_ptr' = NullPtr
    /\ nested_aggregators' = <<>>
    /\ num_tensors_per_agg' = <<>>
    /\ i' = 0
    /\ num_inputs' = 0
    /\ UNCHANGED <<inputs, history, obtained, accumulated>>

\* ------------------------------------------ the bundle after construction
\* One forwarded aggregation call: the input count goes up by one.
Accumulate ==
    /\ pc = "done"
    /\ phase = "first"
    /\ bundle.kind = "bundle"
    /\ accumulated < MaxAccumulate
    /\ bundle' = [bundle EXCEPT !.num_inputs_ = @ + 1]
    /\ accumulated' = accumulated + 1
    /\ UNCHANGED <<inputs, history, locals, pc, obtained, destroyed, result>>

\* The state a nested aggregator serializes to: one its own factory accepts.
SerializeNested(inst) == "ok"

\* The bundle's state message: the input count and one blob per aggregator, in order.
Serialize(b) ==
    [present |-> TRUE,
     num_inputs |-> b.num_inputs_,
     nested_serialized_states |->
         [k \in 1..Len(b.aggregators_) |-> SerializeNested(b.aggregators_[k])]]

\* Serialize the live bundle and call CreateInternal again on the same
\* intrinsic with that state.
SerializeAndRestore ==
    /\ pc = "done"
    /\ phase = "first"
    /\ bundle.kind = "bundle"
    /\ serialized_from' = bundle
    /\ aggregator_state' = Serialize(bundle)
    /\ phase' = "restored"
    /\ StartCall
    /\ UNCHANGED <<intrinsic, resolver_code, first_result>>

\* Call CreateInternal once more with the very same arguments.
Rerun ==
    /\ pc \in {"done", "crashed"}
    /\ phase = "first"
    /\ accumulated = 0
    /\ first_result' = result
    /\ phase' = "rerun"
    /\ StartCall
    /\ UNCHANGED <<inputs, serialized_from>>

Next ==
    \/ CheckNested
    \/ ResolveFactory
    \/ CreateFresh
    \/ DeserializeStored
    \/ DeserializeOutOfRange
    \/ DeserializeCrash
    \/ CastAndPush
    \/ ValidateParameters
    \/ SplitAndReturn
    \/ Accumulate
    \/ SerializeAndRestore
    \/ Rerun

Spec == Init /\ [][Next]_vars


\* ------------------------------------------------------------------ claims
Returned == pc = "done"
ReturnedBundle == Returned /\ result.kind = "bundle"
ReturnedError == Returned /\ result.kind = "error"
Restoring == aggregator_state.present
NestedAt(k) == intrinsic.nested_intrinsics[k]
Epsilon == At(intrinsic.parameters, kEpsilonIndex).value
Delta == At(intrinsic.parameters, kDeltaIndex).value
Threshold == Rat(kEpsilonThreshold, 1)
Elements(s) == {s[k] : k \in 1..Len(s)}

\* The defects of a specification, as the specification's data model lists them.
NestedDefect(k) ==
    \/ NestedAt(k).uri \in {"unknown", "reject"}
    \/ NestedAt(k).uri = "plain"
    \/ /\ Restoring
       /\ k <= Len(aggregator_state.nested_serialized_states)
       /\ aggregator_state.nested_serialized_states[k] = "bad"
ParameterDefect ==
    \/ Len(intrinsic.parameters) # 2
    \/ At(intrinsic.parameters, kEpsilonIndex).dtype = "DT_STRING"
    \/ At(intrinsic.parameters, kDeltaIndex).dtype = "DT_STRING"
    \/ RLeq(Epsilon, Zero)
    \/ RLess(Delta, Zero)
    \/ RLeq(One, Delta)
Defective ==
    \/ NumNested = 0
    \/ \E k \in 1..NumNested : NestedDefect(k)
    \/ ParameterDefect

\* C1: whenever the specification has one of the listed defects (no nested
\* spec, an identifier that does not resolve, a resolved instance that is no DP
\* mechanism, a parameter count other than 2, a non-numeric, zero or negative
\* epsilon, a non-numeric, negative or >= 1 delta), a call that returns returns
\* an error and never a bundle, on fresh construction and on restore alike.
C1_DefectGivesError ==
    (Returned /\ Defective) => (result.kind = "error" /\ bundle.kind # "bundle")

\* C1's case: a restore whose only failing check is the last one, delta >= 1.
C1_Witness ==
    /\ ReturnedError
    /\ Restoring
    /\ result.rule = "delta_range"
    /\ RLeq(One, Delta)

\* C2: a returned bundle carries the reference split: epsilon / n below the
\* threshold, the threshold itself from the threshold on, and delta / n always.
C2_ReferenceSplit ==
    ReturnedBundle =>
        /\ RLess(Epsilon, Threshold) =>
               REq(RMulInt(NumNested, result.epsilon_per_agg_), Epsilon)
        /\ ~RLess(Epsilon, Threshold) => REq(result.epsilon_per_agg_, Threshold)
        /\ REq(RMulInt(NumNested, result.delta_per_agg_), Delta)

\* C2's case: epsilon exactly at the threshold, split over two aggregators.
C2_Witness ==
    /\ ReturnedBundle
    /\ REq(Epsilon, Threshold)
    /\ NumNested = 2
    /\ REq(result.epsilon_per_agg_, Threshold)

\* C3: summed over the n nested mechanisms, the per-mechanism budgets never
\* exceed the requested totals: n * epsilon_per_agg <= epsilon and
\* n * delta_per_agg <= delta, in the capped branch too.
C3_SumWithinBudget ==
    ReturnedBundle =>
        /\ RLeq(RMulInt(NumNested, result.epsilon_per_agg_), Epsilon)
        /\ RLeq(RMulInt(NumNested, result.delta_per_agg_), Delta)

\* C4: a bundle restored from the state serialized by a bundle built from the
\* same specification has the budget pair, the inputs per mechanism and the
\* input count that bundle had when it was serialized.
C4_RoundTrip ==
    (phase = "restored" /\ ReturnedBundle) =>
        /\ result.epsilon_per_agg_ = serialized_from.epsilon_per_agg_
        /\ result.delta_per_agg_ = serialized_from.delta_per_agg_
        /\ result.num_tensors_per_agg_ = serialized_from.num_tensors_per_agg_
        /\ result.num_inputs_ = serialized_from.num_inputs_

\* C4's case: the original was itself restored from a count of 2, absorbed one
\* more input, was serialized at 3, and the restore returned a bundle.
C4_Witness ==
    /\ phase = "restored"
    /\ ReturnedBundle
    /\ serialized_from.num_inputs_ = 3
    /\ Len(result.aggregators_) = 2

\* C5: every error CreateInternal returns is INVALID_ARGUMENT, whatever step
\* failed.
C5_OnlyInvalidArgument ==
    ReturnedError => result.code = INVALID_ARGUMENT

\* The first violated rule in the stated order, for the nested specs whose
\* serialized state exists: nested spec by nested spec resolution, then the DP
\* capability; then the parameter checks.
RECURSIVE FirstNestedDefect(_)
FirstNestedDefect(k) ==
    IF k > NumNested THEN NoResult
    ELSE IF \/ NestedAt(k).uri \in {"unknown", "reject"}
            \/ /\ Restoring
               /\ aggregator_state.nested_serialized_states[k] = "bad"
    THEN [rule |-> "resolve", index |-> k - 1]
    ELSE IF NestedAt(k).uri = "plain"
    THEN [rule |-> "not_dp", index |-> k - 1]
    ELSE FirstNestedDefect(k + 1)
FirstParameterDefect ==
    IF Len(intrinsic.parameters) # 2 THEN "param_count"
    ELSE IF At(intrinsic.parameters, kEpsilonIndex).dtype = "DT_STRING"
    THEN "epsilon_type"
    ELSE IF At(intrinsic.parameters, kDeltaIndex).dtype = "DT_STRING"
    THEN "delta_type"
    ELSE IF RLeq(Epsilon, Zero) THEN "epsilon_range"
    ELSE IF RLess(Delta, Zero) \/ RLeq(One, Delta) THEN "delta_range"
    ELSE "none"
FirstViolatedRule ==
    IF NumNested = 0 THEN [rule |-> "empty", index |-> -1]
    ELSE IF FirstNestedDefect(1) # NoResult THEN FirstNestedDefect(1)
    ELSE [rule |-> FirstParameterDefect, index |-> -1]
EveryBlobExists ==
    Restoring => NumNested <= Len(aggregator_state.nested_serialized_states)

\* The order alone, where every serialized state read exists.
ReportsFirstViolatedRule ==
    (ReturnedError /\ EveryBlobExists) =>
        [rule |-> result.rule, index |-> result.index] = FirstViolatedRule

\* C6: the error reported is the first violated rule of the fixed order, and a
\* second run on the same specification and persisted state reports the same
\* error as the first.
C6_FirstRuleDeterministic ==
    /\ ReportsFirstViolatedRule
    /\ (phase = "rerun" /\ ReturnedError /\ first_result.kind = "error") =>
           result = first_result

\* Who owns an instance the factories handed out.
Owners(inst) ==
    {o \in {"destroyed", "aggregator_ptr", "nested_aggregators", "bundle"} :
        \/ o = "destroyed" /\ inst \in destroyed
        \/ o = "aggregator_ptr" /\ aggregator_ptr = inst
        \/ o = "nested_aggregators" /\ inst \in Elements(nested_aggregators)
        \/ o = "bundle" /\ bundle.kind = "bundle" /\ inst \in Elements(bundle.aggregators_)}

\* C7: when the call returns an error every instance obtained in it has been
\* destroyed and no bundle exists; when it returns a bundle every instance
\* obtained is owned by the bundle and by nothing else; in between every
\* instance has exactly one owner.
C7_AllOrNothing ==
    /\ ReturnedError =>
           /\ obtained \subseteq destroyed
           /\ bundle.kind # "bundle"
    /\ ReturnedBundle =>
           /\ \A inst \in obtained : Owners(inst) = {"bundle"}
           /\ Elements(bundle.aggregators_) = obtained
           /\ Len(bundle.aggregators_) = Cardinality(obtained)
    /\ pc # "crashed" => \A inst \in obtained : Cardinality(Owners(inst)) = 1

\* C7's case: the second nested spec fails the DP check after the first was
\* resolved and pushed; both instances are gone at the return.
C7_Witness ==
    /\ ReturnedError
    /\ result.rule = "not_dp"
    /\ result.index = 1
    /\ Cardinality(obtained) = 2
    /\ obtained \subseteq destroyed

\* C8: in a returned bundle the sequences have the length of nested_specs, and
\* aggregator k is the instance resolved for nested spec k: restored from the
\* persisted blob at index k when a state is given, created fresh when none
\* is; and the recorded input count is the one nested spec k declares.
C8_IndexCorrespondence ==
    ReturnedBundle =>
        /\ Len(result.aggregators_) = NumNested
        /\ Len(result.num_tensors_per_agg_) = NumNested
        /\ \A k \in 1..NumNested :
              /\ result.aggregators_[k].idx = k - 1
              /\ result.aggregators_[k].uri = NestedAt(k).uri
              /\ result.num_tensors_per_agg_[k] = NestedAt(k).inputs
              /\ Restoring =>
                     /\ result.aggregators_[k].via = "Deserialize"
                     /\ result.aggregators_[k].blob_index = k - 1
              /\ ~Restoring => result.aggregators_[k].via = "Create"

\* C9: a returned bundle's input count is 0 when no state is given and the
\* state's stored count when one is.
C9_InputCountFromState ==
    ReturnedBundle =>
        result.num_inputs_ = (IF Restoring THEN aggregator_state.num_inputs ELSE 0)

\* C9's case: a first call restoring a stored count of 2.
C9_Witness ==
    /\ ReturnedBundle
    /\ phase = "first"
    /\ Restoring
    /\ aggregator_state.num_inputs = 2
    /\ result.num_inputs_ = 2

\* C10: no returned bundle has a negative input count (stated for the calls
\* whose persisted state holds every blob the call reads).
C10_InputCountNonNegative ==
    (ReturnedBundle /\ EveryBlobExists) => result.num_inputs_ >= 0

====
